---------------------------- MODULE Spec2Model ----------------------------
(***************************************************************************)
(* A model of robust-data-processor: the Ingest Normalizer                 *)
(* (src/ingest.py) and the Batch Processor (src/worker.py), joined by an   *)
(* SQS queue and a DynamoDB table.                                         *)
(*                                                                         *)
(* A Python str is a sequence of code points.  A Python value that comes   *)
(* out of json.loads (or goes into json.dumps) is a record                 *)
(*   [t, s, n, m]   t : "null" | "bool" | "int" | "str" | "list" | "dict"  *)
(*                      | "float"                                          *)
(*                  s : the code points of a str, the text of a float      *)
(*                  n : the number of an int, 0/1 of a bool                *)
(*                  m : the members of a list or dict, in order, each      *)
(*                      [k |-> key (a str, <<>> in a list), v |-> value]   *)
(* Python's None is JSON's null.                                           *)
(*                                                                         *)
(* Input domain of the text operators: printable ASCII text for            *)
(* json.dumps, and JSON documents made of objects, arrays, strings,        *)
(* numbers, null, true and false for json.loads.                           *)
(***************************************************************************)
EXTENDS Integers, Sequences, FiniteSets, TLC

(***************************************************************************)
(* String literals of the source, as code points.                          *)
(***************************************************************************)
S_content_type == <<99, 111, 110, 116, 101, 110, 116, 45, 116, 121, 112, 101>>   \* "content-type"
S_x_tenant_id == <<120, 45, 116, 101, 110, 97, 110, 116, 45, 105, 100>>   \* "x-tenant-id"
S_application_json == <<97, 112, 112, 108, 105, 99, 97, 116, 105, 111, 110, 47, 106, 115, 111, 110>>   \* "application/json"
S_text_plain == <<116, 101, 120, 116, 47, 112, 108, 97, 105, 110>>   \* "text/plain"
S_unknown == <<117, 110, 107, 110, 111, 119, 110>>   \* "unknown"
S_json_upload == <<106, 115, 111, 110, 95, 117, 112, 108, 111, 97, 100>>   \* "json_upload"
S_text_upload == <<116, 101, 120, 116, 95, 117, 112, 108, 111, 97, 100>>   \* "text_upload"
S_tenant_id == <<116, 101, 110, 97, 110, 116, 95, 105, 100>>   \* "tenant_id"
S_text == <<116, 101, 120, 116>>   \* "text"
S_log_id == <<108, 111, 103, 95, 105, 100>>   \* "log_id"
S_original_text == <<111, 114, 105, 103, 105, 110, 97, 108, 95, 116, 101, 120, 116>>   \* "original_text"
S_source == <<115, 111, 117, 114, 99, 101>>   \* "source"
S_status == <<115, 116, 97, 116, 117, 115>>   \* "status"
S_accepted == <<97, 99, 99, 101, 112, 116, 101, 100>>   \* "accepted"
S_id == <<105, 100>>   \* "id"
S_Invalid_JSON == <<73, 110, 118, 97, 108, 105, 100, 32, 74, 83, 79, 78>>   \* "Invalid JSON"
S_Unsupported == <<85, 110, 115, 117, 112, 112, 111, 114, 116, 101, 100, 32, 67, 111, 110, 116, 101, 110, 116, 45, 84, 121, 112, 101>>   \* "Unsupported Content-Type"
S_Internal == <<73, 110, 116, 101, 114, 110, 97, 108, 32, 83, 101, 114, 118, 101, 114, 32, 69, 114, 114, 111, 114>>   \* "Internal Server Error"
S_redacted == <<46, 46, 46, 32, 91, 82, 69, 68, 65, 67, 84, 69, 68, 93>>   \* "... [REDACTED]"
S_null == <<110, 117, 108, 108>>   \* "null"
S_true == <<116, 114, 117, 101>>   \* "true"
S_false == <<102, 97, 108, 115, 101>>   \* "false"

(***************************************************************************)
(* Python values.                                                          *)
(***************************************************************************)
PyNone == [t |-> "null", s |-> <<>>, n |-> 0, m |-> <<>>]

PyStr(x) == [t |-> "str", s |-> x, n |-> 0, m |-> <<>>]

PyInt(x) == [t |-> "int", s |-> <<>>, n |-> x, m |-> <<>>]

PyBool(b) == [t |-> "bool", s |-> <<>>, n |-> IF b THEN 1 ELSE 0, m |-> <<>>]

PyList(ms) == [t |-> "list", s |-> <<>>, n |-> 0, m |-> ms]

PyDict(ms) == [t |-> "dict", s |-> <<>>, n |-> 0, m |-> ms]

Member(k, v) == [k |-> k, v |-> v]

IsStr(x) == x.t = "str"

\* key in d, for a dict d
DictHas(d, key) == \E i \in 1..Len(d.m) : d.m[i].k = key

\* d.get(key, default)
DictGet(d, key, default) ==
    IF DictHas(d, key)
    THEN d.m[CHOOSE i \in 1..Len(d.m) : d.m[i].k = key].v
    ELSE default

\* d[key] = v on the member list ms: a repeated key keeps its place and takes
\* the new value
DictSet(ms, key, v) ==
    IF \E i \in 1..Len(ms) : ms[i].k = key
    THEN [i \in 1..Len(ms) |-> IF ms[i].k = key THEN Member(key, v) ELSE ms[i]]
    ELSE Append(ms, Member(key, v))

(***************************************************************************)
(* str operations.                                                         *)
(***************************************************************************)
\* needle in hay
Contains(hay, needle) ==
    \E i \in 0..(Len(hay) - Len(needle)) :
        \A j \in 1..Len(needle) : hay[i + j] = needle[j]

\* c.lower() of one code point (ASCII letters; the header names of the model)
LowerChar(c) == IF c >= 65 /\ c <= 90 THEN c + 32 ELSE c

\* s.lower()
Lower(s) == [i \in 1..Len(s) |-> LowerChar(s[i])]

\* s[:n]
Prefix(s, n) == SubSeq(s, 1, IF Len(s) < n THEN Len(s) ELSE n)

\* whether s[i:] starts with lit
StartsAt(s, i, lit) ==
    /\ i + Len(lit) - 1 <= Len(s)
    /\ \A j \in 1..Len(lit) : s[i + j - 1] = lit[j]

(***************************************************************************)
(* base64.b64decode(s) with validate=False, as binascii.a2b_base64 reads   *)
(* its input: characters outside the alphabet are skipped; the data        *)
(* characters are taken four at a time (quad_pos); a pad sequence that     *)
(* completes a quantum ends the input; a dangling quantum is an error.     *)
(* The loop of a2b_base64 is unrolled into definitions over positions.     *)
(***************************************************************************)
\* the 6-bit value of an alphabet character, 64 for any other
B64Index(c) ==
    IF c >= 65 /\ c <= 90 THEN c - 65
    ELSE IF c >= 97 /\ c <= 122 THEN c - 71
    ELSE IF c >= 48 /\ c <= 57 THEN c + 4
    ELSE IF c = 43 THEN 62
    ELSE IF c = 47 THEN 63
    ELSE 64

IsB64Char(c) == B64Index(c) < 64

\* quad_pos when the loop reaches s[i]
QuadPos(s, i) == Cardinality({j \in 1..(i - 1) : IsB64Char(s[j])}) % 4

\* pads once the loop has read the '=' at s[i]: the '=' since the last data
\* character
Pads(s, i) ==
    Cardinality({j \in 1..i :
        s[j] = 61 /\ \A k \in j..i : ~IsB64Char(s[k])})

\* the loop leaves at s[i]: a '=' that completes the pad sequence
PadEnds(s, i) == s[i] = 61 /\ QuadPos(s, i) >= 2 /\ QuadPos(s, i) + Pads(s, i) >= 4

\* where the loop stops reading: the first such '=', or past the end
B64Stop(s) ==
    IF \E i \in 1..Len(s) : PadEnds(s, i)
    THEN CHOOSE i \in 1..Len(s) :
             PadEnds(s, i) /\ \A j \in 1..(i - 1) : ~PadEnds(s, j)
    ELSE Len(s) + 1

\* the bytes of the data characters d (their 6-bit values)
B64Bytes(d) ==
    LET n == Len(d)
        nbytes == 3 * (n \div 4) + (IF n % 4 = 0 THEN 0 ELSE (n % 4) - 1)
    IN  [b \in 1..nbytes |->
            LET q == 4 * ((b - 1) \div 3) IN
            CASE (b - 1) % 3 = 0 -> d[q + 1] * 4 + (d[q + 2] \div 16)
              [] (b - 1) % 3 = 1 -> (d[q + 2] % 16) * 16 + (d[q + 3] \div 4)
              [] OTHER -> (d[q + 3] % 4) * 64 + d[q + 4]]

\* the result for the 6-bit values d read before position stop
A2bResult(s, stop, d) ==
    [ok |-> stop <= Len(s) \/ Len(d) % 4 = 0, bytes |-> B64Bytes(d)]

B64Values(read) == [i \in 1..Len(read) |-> B64Index(read[i])]

A2bRead(s, stop) ==
    A2bResult(s, stop, B64Values(SelectSeq(SubSeq(s, 1, stop - 1), IsB64Char)))

A2bBase64(s) == A2bRead(s, B64Stop(s))

\* b64decode of a Python value: None is a TypeError, a str with a non-ASCII
\* character a ValueError, a dangling quantum a binascii.Error
B64Checked(r) == IF r.ok THEN r ELSE [ok |-> FALSE, bytes |-> <<>>]

B64Decode(x) ==
    IF ~IsStr(x) \/ (\E i \in 1..Len(x.s) : x.s[i] >= 128)
    THEN [ok |-> FALSE, bytes |-> <<>>]
    ELSE B64Checked(A2bBase64(x.s))

(***************************************************************************)
(* bytes.decode('utf-8'), strict.  A byte outside 0x80..0xBF starts a      *)
(* character; the bytes 0x80..0xBF continue one.                           *)
(***************************************************************************)
IsCont(bs, i) == i <= Len(bs) /\ bs[i] >= 128 /\ bs[i] <= 191

\* the length of the character a byte starts, 0 when it starts none
Utf8Len(b) ==
    IF b < 128 THEN 1
    ELSE IF b >= 194 /\ b <= 223 THEN 2
    ELSE IF b >= 224 /\ b <= 239 THEN 3
    ELSE IF b >= 240 /\ b <= 244 THEN 4
    ELSE 0

\* the character that starts at bs[i] is well formed
Utf8CharOk(bs, i) ==
    LET b == bs[i] IN
    /\ Utf8Len(b) > 0
    /\ \A j \in (i + 1)..(i + Utf8Len(b) - 1) : IsCont(bs, j)
    /\ (b = 224 => bs[i + 1] >= 160)
    /\ (b = 237 => bs[i + 1] <= 159)
    /\ (b = 240 => bs[i + 1] >= 144)
    /\ (b = 244 => bs[i + 1] <= 143)

\* the continuation byte bs[j] belongs to the character started before it
Utf8ContOk(bs, j) ==
    \E i \in 1..(j - 1) :
        /\ ~IsCont(bs, i)
        /\ \A k \in (i + 1)..j : IsCont(bs, k)
        /\ j - i < Utf8Len(bs[i])

\* the code point of the character that starts at bs[i]
Utf8CodePoint(bs, i) ==
    LET b == bs[i] IN
    CASE Utf8Len(b) = 1 -> b
      [] Utf8Len(b) = 2 -> (b - 192) * 64 + (bs[i + 1] - 128)
      [] Utf8Len(b) = 3 ->
           (b - 224) * 4096 + (bs[i + 1] - 128) * 64 + (bs[i + 2] - 128)
      [] OTHER ->
           (b - 240) * 262144 + (bs[i + 1] - 128) * 4096
               + (bs[i + 2] - 128) * 64 + (bs[i + 3] - 128)

\* the starts of the characters of bs, in order
Utf8Starts(bs) == SelectSeq([i \in 1..Len(bs) |-> IF IsCont(bs, i) THEN 0 ELSE i],
                            LAMBDA i : i > 0)

Utf8Chars(bs, starts) == [k \in 1..Len(starts) |-> Utf8CodePoint(bs, starts[k])]

Utf8Decode(bs) ==
    IF \A i \in 1..Len(bs) :
           IF IsCont(bs, i) THEN Utf8ContOk(bs, i) ELSE Utf8CharOk(bs, i)
    THEN [ok |-> TRUE, s |-> Utf8Chars(bs, Utf8Starts(bs))]
    ELSE [ok |-> FALSE, s |-> <<>>]

\* base64.b64decode(body).decode('utf-8')
DecodeBytes(raw) ==
    IF ~raw.ok THEN [ok |-> FALSE, s |-> <<>>] ELSE Utf8Decode(raw.bytes)

DecodeBody(body) == DecodeBytes(B64Decode(body))

(***************************************************************************)
(* json.dumps(x): separators ", " and ": ", ensure_ascii.                  *)
(***************************************************************************)
HexDigit(d) == IF d < 10 THEN 48 + d ELSE 87 + d

\* \uXXXX
UEscape(c) ==
    <<92, 117, HexDigit(c \div 4096), HexDigit((c \div 256) % 16),
      HexDigit((c \div 16) % 16), HexDigit(c % 16)>>

EscapeChar(c) ==
    CASE c = 34 -> <<92, 34>>
      [] c = 92 -> <<92, 92>>
      [] c = 10 -> <<92, 110>>
      [] c = 13 -> <<92, 114>>
      [] c = 9 -> <<92, 116>>
      [] c = 8 -> <<92, 98>>
      [] c = 12 -> <<92, 102>>
      [] c >= 65536 ->
           UEscape(55296 + ((c - 65536) \div 1024))
               \o UEscape(56320 + ((c - 65536) % 1024))
      [] c < 32 \/ c > 127 -> UEscape(c)
      [] OTHER -> <<c>>

\* the first index from i on of a character json.dumps escapes, past the end
\* when there is none
NextEscaped(s, i) ==
    IF \E j \in i..Len(s) : EscapeChar(s[j]) # <<s[j]>>
    THEN CHOOSE j \in i..Len(s) :
             /\ EscapeChar(s[j]) # <<s[j]>>
             /\ \A k \in i..(j - 1) : EscapeChar(s[k]) = <<s[k]>>
    ELSE Len(s) + 1

RECURSIVE EscapeStr(_, _)
RECURSIVE EscapeFrom(_, _, _)
\* s from i on, j being the next character to escape
EscapeFrom(s, i, j) ==
    IF j > Len(s) THEN SubSeq(s, i, Len(s))
    ELSE SubSeq(s, i, j - 1) \o EscapeChar(s[j]) \o EscapeStr(s, j + 1)

EscapeStr(s, i) == EscapeFrom(s, i, NextEscaped(s, i))

RECURSIVE Digits(_)
Digits(n) ==
    IF n < 10 THEN <<48 + n>> ELSE Append(Digits(n \div 10), 48 + (n % 10))

RECURSIVE JsonDumps(_)
RECURSIVE DumpMembers(_, _, _)
DumpMembers(ms, i, withKeys) ==
    IF i > Len(ms) THEN <<>>
    ELSE (IF i > 1 THEN <<44, 32>> ELSE <<>>)
         \o (IF withKeys
             THEN <<34>> \o EscapeStr(ms[i].k, 1) \o <<34, 58, 32>>
             ELSE <<>>)
         \o JsonDumps(ms[i].v)
         \o DumpMembers(ms, i + 1, withKeys)

JsonDumps(x) ==
    CASE x.t = "null" -> S_null
      [] x.t = "bool" -> IF x.n = 1 THEN S_true ELSE S_false
      [] x.t = "int" -> IF x.n < 0 THEN <<45>> \o Digits(-x.n) ELSE Digits(x.n)
      [] x.t = "float" -> x.s
      [] x.t = "str" -> <<34>> \o EscapeStr(x.s, 1) \o <<34>>
      [] x.t = "list" -> <<91>> \o DumpMembers(x.m, 1, FALSE) \o <<93>>
      [] x.t = "dict" -> <<123>> \o DumpMembers(x.m, 1, TRUE) \o <<125>>

(***************************************************************************)
(* json.loads(s): a result [ok, v, i]; ok = FALSE is json.JSONDecodeError. *)
(* A number with a fraction or an exponent, NaN and Infinity are kept by   *)
(* their text, as a value of type "float".                                 *)
(***************************************************************************)
ParseFail == [ok |-> FALSE, v |-> PyNone, i |-> 0]

ParseOk(v, i) == [ok |-> TRUE, v |-> v, i |-> i]

IsDigit(s, i) == i <= Len(s) /\ s[i] >= 48 /\ s[i] <= 57

RECURSIVE SkipWs(_, _)
SkipWs(s, i) ==
    IF i <= Len(s) /\ s[i] \in {32, 9, 10, 13} THEN SkipWs(s, i + 1) ELSE i

RECURSIVE SkipDigits(_, _)
SkipDigits(s, i) == IF IsDigit(s, i) THEN SkipDigits(s, i + 1) ELSE i

RECURSIVE DigitsValue(_, _, _)
DigitsValue(s, i, j) ==
    IF j < i THEN 0 ELSE DigitsValue(s, i, j - 1) * 10 + (s[j] - 48)

HexVal(c) ==
    IF c >= 48 /\ c <= 57 THEN c - 48
    ELSE IF c >= 97 /\ c <= 102 THEN c - 87
    ELSE IF c >= 65 /\ c <= 70 THEN c - 55
    ELSE -1

\* whether s[i..i+3] are four hex digits
IsHex4(s, i) == i + 3 <= Len(s) /\ \A j \in i..(i + 3) : HexVal(s[j]) >= 0

Hex4(s, i) ==
    HexVal(s[i]) * 4096 + HexVal(s[i + 1]) * 256
        + HexVal(s[i + 2]) * 16 + HexVal(s[i + 3])

\* the character a one-letter escape stands for, -1 for none
Unescape(e) ==
    CASE e = 34 -> 34 [] e = 92 -> 92 [] e = 47 -> 47 [] e = 98 -> 8
      [] e = 102 -> 12 [] e = 110 -> 10 [] e = 114 -> 13 [] e = 116 -> 9
      [] OTHER -> -1

\* the first index from i on of a quote, a backslash or a control character,
\* past the end when there is none
NextSpecial(s, i) ==
    IF \E j \in i..Len(s) : s[j] \in {34, 92} \/ s[j] < 32
    THEN CHOOSE j \in i..Len(s) :
             /\ s[j] \in {34, 92} \/ s[j] < 32
             /\ \A k \in i..(j - 1) : ~(s[k] \in {34, 92} \/ s[k] < 32)
    ELSE Len(s) + 1

RECURSIVE ScanString(_, _, _)
RECURSIVE ParseValue(_, _)
RECURSIVE ParseMembers(_, _, _)
RECURSIVE ParseElements(_, _, _)
\* the \uXXXX escape at s[j], hi being its value and out the string so far
ScanUnicode(s, j, hi, out) ==
    IF /\ hi >= 55296 /\ hi <= 56319
       /\ StartsAt(s, j + 6, <<92, 117>>) /\ IsHex4(s, j + 8)
       /\ Hex4(s, j + 8) >= 56320 /\ Hex4(s, j + 8) <= 57343
    THEN ScanString(s, j + 12,
             Append(out, 65536 + (hi - 55296) * 1024
                         + (Hex4(s, j + 8) - 56320)))
    ELSE ScanString(s, j + 6, Append(out, hi))

\* the special character at s[j], out being the string so far
ScanSpecial(s, j, out) ==
    IF j > Len(s) THEN ParseFail
    ELSE IF s[j] = 34 THEN ParseOk(PyStr(out), j + 1)
    ELSE IF s[j] < 32 THEN ParseFail
    ELSE IF j + 1 > Len(s) THEN ParseFail
    ELSE IF s[j + 1] # 117
    THEN IF Unescape(s[j + 1]) < 0 THEN ParseFail
         ELSE ScanString(s, j + 2, Append(out, Unescape(s[j + 1])))
    ELSE IF ~IsHex4(s, j + 2) THEN ParseFail
    ELSE ScanUnicode(s, j, Hex4(s, j + 2), out)

ScanChunk(s, i, j, chunk) == ScanSpecial(s, j, chunk \o SubSeq(s, i, j - 1))

\* the string whose opening quote is before s[i]
ScanString(s, i, chunk) == ScanChunk(s, i, NextSpecial(s, i), chunk)

\* the number at s[i]: -?(0|[1-9][0-9]*)(\.[0-9]+)?([eE][-+]?[0-9]+)?
\* d: after the sign; e: after the integer part; f: after the fraction;
\* x: after the exponent's mark and sign; g: after the whole number
NumberResult(s, i, d, e, g) ==
    IF e = d THEN ParseFail
    ELSE IF g > e THEN ParseOk([PyNone EXCEPT !.t = "float",
                                   !.s = SubSeq(s, i, g - 1)], g)
    ELSE ParseOk(PyInt(IF s[i] = 45 THEN -DigitsValue(s, d, e - 1)
                                    ELSE DigitsValue(s, d, e - 1)), e)

NumberExponent(s, i, d, e, f, x) ==
    NumberResult(s, i, d, e,
        IF x > f /\ IsDigit(s, x) THEN SkipDigits(s, x) ELSE f)

NumberFraction(s, i, d, e, f) ==
    NumberExponent(s, i, d, e, f,
        IF f <= Len(s) /\ s[f] \in {101, 69}
        THEN IF f + 1 <= Len(s) /\ s[f + 1] \in {43, 45}
             THEN f + 2 ELSE f + 1
        ELSE f)

NumberInteger(s, i, d, e) ==
    NumberFraction(s, i, d, e,
        IF e <= Len(s) /\ s[e] = 46 /\ IsDigit(s, e + 1)
        THEN SkipDigits(s, e + 1) ELSE e)

NumberSign(s, i, d) ==
    NumberInteger(s, i, d,
        IF IsDigit(s, d) /\ s[d] = 48 THEN d + 1 ELSE SkipDigits(s, d))

ParseNumber(s, i) == NumberSign(s, i, IF s[i] = 45 THEN i + 1 ELSE i)

Literal(s, i, lit, v) ==
    IF StartsAt(s, i, lit) THEN ParseOk(v, i + Len(lit)) ELSE ParseFail

\* after a member, s[n] being a comma or the closing brace
MemberNext(s, n, ms) ==
    IF n > Len(s) THEN ParseFail
    ELSE IF s[n] = 125 THEN ParseOk(PyDict(ms), n + 1)
    ELSE IF s[n] = 44 THEN ParseMembers(s, SkipWs(s, n + 1), ms)
    ELSE ParseFail

\* a later member of the same name replaces the earlier
MemberValue(s, key, val, ms) ==
    IF ~val.ok THEN ParseFail
    ELSE MemberNext(s, SkipWs(s, val.i), DictSet(ms, key.v.s, val.v))

MemberColon(s, key, c, ms) ==
    IF c > Len(s) \/ s[c] # 58 THEN ParseFail
    ELSE MemberValue(s, key, ParseValue(s, SkipWs(s, c + 1)), ms)

MemberKey(s, key, ms) ==
    IF ~key.ok THEN ParseFail ELSE MemberColon(s, key, SkipWs(s, key.i), ms)

\* the members of an object, s[i] being where a key's opening quote must be
ParseMembers(s, i, ms) ==
    IF i > Len(s) \/ s[i] # 34 THEN ParseFail
    ELSE MemberKey(s, ScanString(s, i + 1, <<>>), ms)

ElementNext(s, n, ms) ==
    IF n > Len(s) THEN ParseFail
    ELSE IF s[n] = 93 THEN ParseOk(PyList(ms), n + 1)
    ELSE IF s[n] = 44 THEN ParseElements(s, SkipWs(s, n + 1), ms)
    ELSE ParseFail

ElementValue(s, val, ms) ==
    IF ~val.ok THEN ParseFail
    ELSE ElementNext(s, SkipWs(s, val.i), Append(ms, Member(<<>>, val.v)))

\* the elements of an array, s[i] being where a value must start
ParseElements(s, i, ms) == ElementValue(s, ParseValue(s, i), ms)

\* s[i] is '{', n where its first member or '}' must be
ParseObject(s, n) ==
    IF n <= Len(s) /\ s[n] = 125 THEN ParseOk(PyDict(<<>>), n + 1)
    ELSE ParseMembers(s, n, <<>>)

ParseArray(s, n) ==
    IF n <= Len(s) /\ s[n] = 93 THEN ParseOk(PyList(<<>>), n + 1)
    ELSE ParseElements(s, n, <<>>)

ParseValue(s, i) ==
    IF i > Len(s) THEN ParseFail
    ELSE CASE s[i] = 34 -> ScanString(s, i + 1, <<>>)
           [] s[i] = 123 -> ParseObject(s, SkipWs(s, i + 1))
           [] s[i] = 91 -> ParseArray(s, SkipWs(s, i + 1))
           [] s[i] = 110 -> Literal(s, i, S_null, PyNone)
           [] s[i] = 116 -> Literal(s, i, S_true, PyBool(TRUE))
           [] s[i] = 102 -> Literal(s, i, S_false, PyBool(FALSE))
           [] s[i] = 78 ->
                Literal(s, i, <<78, 97, 78>>,
                        [PyNone EXCEPT !.t = "float", !.s = <<78, 97, 78>>])
           [] s[i] = 73 ->
                Literal(s, i, <<73, 110, 102, 105, 110, 105, 116, 121>>,
                        [PyNone EXCEPT !.t = "float",
                            !.s = <<73, 110, 102, 105, 110, 105, 116, 121>>])
           [] s[i] = 45 /\ StartsAt(s, i + 1, <<73>>) ->
                Literal(s, i, <<45, 73, 110, 102, 105, 110, 105, 116, 121>>,
                        [PyNone EXCEPT !.t = "float",
                            !.s = <<45, 73, 110, 102, 105, 110, 105, 116, 121>>])
           [] s[i] = 45 \/ IsDigit(s, i) -> ParseNumber(s, i)
           [] OTHER -> ParseFail

\* json.loads(x): [ok, v]; x is a str (json.loads(None) is a TypeError, which
\* the callers test before)
LoadsResult(s, r) ==
    IF r.ok /\ SkipWs(s, r.i) > Len(s) THEN [ok |-> TRUE, v |-> r.v]
    ELSE [ok |-> FALSE, v |-> PyNone]

JsonLoads(s) == LoadsResult(s, ParseValue(s, SkipWs(s, 1)))

(***************************************************************************)
(* The inputs of the model: header names and values, submission bodies.    *)
(***************************************************************************)
\* '{"tenant_id":"acme","text":"hello","log_id":"abc"}'
T_json_example ==
        <<123, 34, 116, 101, 110, 97, 110, 116, 95, 105, 100, 34, 58, 34,
        97, 99, 109, 101, 34, 44, 34, 116, 101, 120, 116, 34, 58, 34, 104,
        101, 108, 108, 111, 34, 44, 34, 108, 111, 103, 95, 105, 100, 34,
        58, 34, 97, 98, 99, 34, 125>>

\* '{"text":"hello world!"}'
T_json_no_ids ==
        <<123, 34, 116, 101, 120, 116, 34, 58, 34, 104, 101, 108, 108, 111,
        32, 119, 111, 114, 108, 100, 33, 34, 125>>

\* '{"tenant_id":null,"text":5,"log_id":7}'
T_json_untyped ==
        <<123, 34, 116, 101, 110, 97, 110, 116, 95, 105, 100, 34, 58, 110,
        117, 108, 108, 44, 34, 116, 101, 120, 116, 34, 58, 53, 44, 34, 108,
        111, 103, 95, 105, 100, 34, 58, 55, 125>>

\* '[1]'
T_json_array ==
        <<91, 49, 93>>

\* 'hi there'
T_plain ==
        <<104, 105, 32, 116, 104, 101, 114, 101>>

\* base64 of T_json_example
T_b64_json_example ==
        <<101, 121, 74, 48, 90, 87, 53, 104, 98, 110, 82, 102, 97, 87, 81,
        105, 79, 105, 74, 104, 89, 50, 49, 108, 73, 105, 119, 105, 100, 71,
        86, 52, 100, 67, 73, 54, 73, 109, 104, 108, 98, 71, 120, 118, 73,
        105, 119, 105, 98, 71, 57, 110, 88, 50, 108, 107, 73, 106, 111,
        105, 89, 87, 74, 106, 73, 110, 48, 61>>

\* base64 of "hi there"
T_b64_plain ==
        <<97, 71, 107, 103, 100, 71, 104, 108, 99, 109, 85, 61>>

\* '!!!!'
T_b64_junk ==
        <<33, 33, 33, 33>>

\* 'aGk'
T_b64_short ==
        <<97, 71, 107>>

\* '////'
T_b64_not_utf8 ==
        <<47, 47, 47, 47>>

\* 'beta'
V_beta ==
        <<98, 101, 116, 97>>

\* 'application/xml'
V_application_xml ==
        <<97, 112, 112, 108, 105, 99, 97, 116, 105, 111, 110, 47, 120, 109,
        108>>

\* 'Content-Type'
N_Content_Type ==
        <<67, 111, 110, 116, 101, 110, 116, 45, 84, 121, 112, 101>>

\* 'X-Tenant-Id'
N_X_Tenant_Id ==
        <<88, 45, 84, 101, 110, 97, 110, 116, 45, 73, 100>>

\* 'uuid-'
S_uuid ==
        <<117, 117, 105, 100, 45>>

\* {"tenant_id": "acme", "log_id": "abc", "original_text": "hello world!", "source": "json_upload"}
M_envelope ==
        <<123, 34, 116, 101, 110, 97, 110, 116, 95, 105, 100, 34, 58, 32,
        34, 97, 99, 109, 101, 34, 44, 32, 34, 108, 111, 103, 95, 105, 100,
        34, 58, 32, 34, 97, 98, 99, 34, 44, 32, 34, 111, 114, 105, 103,
        105, 110, 97, 108, 95, 116, 101, 120, 116, 34, 58, 32, 34, 104,
        101, 108, 108, 111, 32, 119, 111, 114, 108, 100, 33, 34, 44, 32,
        34, 115, 111, 117, 114, 99, 101, 34, 58, 32, 34, 106, 115, 111,
        110, 95, 117, 112, 108, 111, 97, 100, 34, 125>>

\* {"tenant_id": "acme", "log_id": "abc", "original_text": "hi", "source": "text_upload"}
M_envelope_rewritten ==
        <<123, 34, 116, 101, 110, 97, 110, 116, 95, 105, 100, 34, 58, 32,
        34, 97, 99, 109, 101, 34, 44, 32, 34, 108, 111, 103, 95, 105, 100,
        34, 58, 32, 34, 97, 98, 99, 34, 44, 32, 34, 111, 114, 105, 103,
        105, 110, 97, 108, 95, 116, 101, 120, 116, 34, 58, 32, 34, 104,
        105, 34, 44, 32, 34, 115, 111, 117, 114, 99, 101, 34, 58, 32, 34,
        116, 101, 120, 116, 95, 117, 112, 108, 111, 97, 100, 34, 125>>

\* not json
M_not_json ==
        <<110, 111, 116, 32, 106, 115, 111, 110>>

\* [1]
M_array ==
        <<91, 49, 93>>

\* {"tenant_id": "acme", "log_id": "n1", "original_text": 5, "source": "json_upload"}
M_text_number ==
        <<123, 34, 116, 101, 110, 97, 110, 116, 95, 105, 100, 34, 58, 32,
        34, 97, 99, 109, 101, 34, 44, 32, 34, 108, 111, 103, 95, 105, 100,
        34, 58, 32, 34, 110, 49, 34, 44, 32, 34, 111, 114, 105, 103, 105,
        110, 97, 108, 95, 116, 101, 120, 116, 34, 58, 32, 53, 44, 32, 34,
        115, 111, 117, 114, 99, 101, 34, 58, 32, 34, 106, 115, 111, 110,
        95, 117, 112, 108, 111, 97, 100, 34, 125>>

\* {}
M_empty_object ==
        <<123, 125>>

\* None
S_None ==
        <<78, 111, 110, 101>>

\* True
S_True ==
        <<84, 114, 117, 101>>

\* False
S_False ==
        <<70, 97, 108, 115, 101>>

\* {"tenant_id": "acme", "log_id": "abc", "original_text": "hello", "source": "json_upload"}
E_json_example ==
        <<123, 34, 116, 101, 110, 97, 110, 116, 95, 105, 100, 34, 58,
        32, 34, 97, 99, 109, 101, 34, 44, 32, 34, 108, 111, 103, 95,
        105, 100, 34, 58, 32, 34, 97, 98, 99, 34, 44, 32, 34, 111, 114,
        105, 103, 105, 110, 97, 108, 95, 116, 101, 120, 116, 34, 58, 32,
        34, 104, 101, 108, 108, 111, 34, 44, 32, 34, 115, 111, 117, 114,
        99, 101, 34, 58, 32, 34, 106, 115, 111, 110, 95, 117, 112, 108,
        111, 97, 100, 34, 125>>

\* {"status": "accepted", "id": "abc"}
R_accepted_abc ==
        <<123, 34, 115, 116, 97, 116, 117, 115, 34, 58, 32, 34, 97, 99,
        99, 101, 112, 116, 101, 100, 34, 44, 32, 34, 105, 100, 34, 58,
        32, 34, 97, 98, 99, 34, 125>>

\* 'abc'
V_abc ==
        <<97, 98, 99>>

\* 'acme'
V_acme ==
        <<97, 99, 109, 101>>

\* the bounds of the model: invocations of the Ingest Normalizer, messages
\* the queue holds, records of a batch, ticks of the clock
MaxInvocations == 2

MaxQueue == 1

MaxBatch == 2

MaxClock == 2

\* how far from 0 and from the ceiling the lengths of the long texts go
MaxOver == 2

\* header lists of a submission: a content-type header or none, then an
\* x-tenant-id header or none, each name in lower or in mixed case
ContentTypeHeaders ==
    {<<>>} \cup
    {<<Member(k, v)>> :
        k \in {S_content_type, N_Content_Type},
        v \in {S_application_json, S_text_plain, V_application_xml}}

TenantHeaders ==
    {<<>>} \cup {<<Member(k, V_beta)>> : k \in {S_x_tenant_id, N_X_Tenant_Id}}

HeaderLists == {c \o x : c \in ContentTypeHeaders, x \in TenantHeaders}

\* event['body']: a str, or None for a request without a body
Bodies ==
    {PyNone} \cup
    {PyStr(b) : b \in {T_json_example, T_json_no_ids, T_json_untyped,
                       T_json_array, T_plain, T_b64_json_example,
                       T_b64_plain, T_b64_junk, T_b64_short, T_b64_not_utf8}}

Events ==
    [headers : HeaderLists, body : Bodies, isBase64Encoded : BOOLEAN]

\* record['body'] of a delivered message; the last is the envelope of the
\* JSON upload {"tenant_id": "acme", "log_id": "abc", "text": [1, ..., 11]}
MessageBodies ==
    {M_envelope, M_envelope_rewritten, M_not_json, M_array, M_text_number,
     M_empty_object,
     JsonDumps(PyDict(<<Member(S_tenant_id, PyStr(V_acme)),
                        Member(S_log_id, PyStr(V_abc)),
                        Member(S_original_text,
                               PyList([k \in 1..11 |-> Member(<<>>, PyInt(k))])),
                        Member(S_source, PyStr(S_json_upload))>>))}

\* event['Records'] of a worker invocation: the delivery identifier of a
\* record is its place in the batch
Batches ==
    UNION {[1..n -> MessageBodies] : n \in 1..MaxBatch}

Records(bodies) ==
    [i \in 1..Len(bodies) |-> [messageId |-> i, body |-> bodies[i]]]

Workers == {"w1", "w2"}

(***************************************************************************)
(* The state.                                                              *)
(*   ing       the Ingest Normalizer's invocation: its position, its       *)
(*             locals, its response, and the send_message calls it made    *)
(*   nextUuid  the number of uuid4() calls so far                          *)
(*   queue     the messages on the SQS queue, each [messageId, body]       *)
(*   nextMsgId the number of messages the queue has accepted               *)
(*   wk        the Batch Processor's invocations, one per worker: its      *)
(*             position, its event, its locals, its response, and what     *)
(*             became of each record it has handled                        *)
(*   store     the items of the DynamoDB table                             *)
(*   clock     the time datetime.utcnow() reads                            *)
(***************************************************************************)
VARIABLES ing, nextUuid, queue, nextMsgId, wk, store, clock

vars == <<ing, nextUuid, queue, nextMsgId, wk, store, clock>>

ingestVars == <<ing, nextUuid>>

queueVars == <<queue, nextMsgId>>

workerVars == <<wk, store, clock>>

NoResponse == [statusCode |-> 0, body |-> <<>>]

Response(code, body) == [statusCode |-> code, body |-> body]

\* str(uuid.uuid4()): a fresh non-empty identifier, the n-th one
Uuid4(n) == S_uuid \o Digits(n)

\* what is kept of an invocation that is over, to compare the next with:
\* its event, its response and its send_message calls; none at first
NoInvocation ==
    [event |-> [headers |-> <<>>, body |-> PyNone, isBase64Encoded |-> FALSE],
     resp |-> NoResponse, calls |-> <<>>]

IngIdle ==
    [pc |-> "idle",
     event |-> [headers |-> <<>>, body |-> PyNone, isBase64Encoded |-> FALSE],
     headers |-> <<>>, content_type |-> <<>>,
     tenant_id |-> PyNone, payload_text |-> PyNone, source_type |-> <<>>,
     log_id |-> PyNone, body |-> PyNone, message |-> PyNone,
     resp |-> NoResponse, calls |-> <<>>, prev |-> NoInvocation]

(***************************************************************************)
(* src/ingest.py lambda_handler, one action per numbered step.             *)
(***************************************************************************)
\* line 13 without k.lower(): the names as the caller wrote them
RECURSIVE NormalizeHeadersAsWritten(_, _)
NormalizeHeadersAsWritten(hs, n) ==
    IF n = 0 THEN <<>>
    ELSE DictSet(NormalizeHeadersAsWritten(hs, n - 1), hs[n].k, hs[n].v)

\* {k.lower(): v for k, v in event.get('headers', {}).items()}
RECURSIVE NormalizeHeaders(_, _)
NormalizeHeaders(hs, n) ==
    IF n = 0 THEN <<>>
    ELSE DictSet(NormalizeHeaders(hs, n - 1), Lower(hs[n].k), hs[n].v)

\* headers.get(key, default), the values being strs
HeadersGet(headers, key, default) ==
    IF \E i \in 1..Len(headers) : headers[i].k = key
    THEN headers[CHOOSE i \in 1..Len(headers) : headers[i].k = key].v
    ELSE default

\* the handler without its try: the exception leaves lambda_handler
Return500Raises(st) == [st EXCEPT !.pc = "raised"]

\* the except clause of the handler (lines 67-69)
Return500(st) ==
    [st EXCEPT !.pc = "done", !.resp = Response(500, S_Internal)]

\* lines 13-19 on event e, n being the number of uuid4() calls before
Invoked(e, n) ==
    LET headers == NormalizeHeaders(e.headers, Len(e.headers)) IN
    [IngIdle EXCEPT
        !.pc = "body",
        !.event = e,
        !.headers = headers,
        !.content_type = HeadersGet(headers, S_content_type, <<>>),
        !.tenant_id = PyStr(S_unknown),
        !.payload_text = PyStr(<<>>),
        !.source_type = <<>>,
        !.log_id = PyStr(Uuid4(n))]

\* lines 10-19: the headers and the locals
IngestInvoke(e) ==
    /\ ing.pc = "idle"
    /\ nextUuid < MaxInvocations
    /\ Cardinality(queue) < MaxQueue
    /\ ing' = Invoked(e, nextUuid)
    /\ nextUuid' = nextUuid + 1
    /\ UNCHANGED <<queueVars, workerVars>>

\* lines 21-24: the body, decoded when the event says it is base64
IngestBody ==
    /\ ing.pc = "body"
    /\ IF ing.event.isBase64Encoded
       THEN LET d == DecodeBody(ing.event.body) IN
            IF d.ok
            THEN ing' = [ing EXCEPT !.pc = "classify", !.body = PyStr(d.s)]
            ELSE ing' = Return500(ing)
       ELSE ing' = [ing EXCEPT !.pc = "classify", !.body = ing.event.body]
    /\ UNCHANGED <<nextUuid, queueVars, workerVars>>

\* lines 27-37 without lines 34-35: the generated log_id is kept
ClassifyJsonKeepsGenerated(st) ==
    IF ~IsStr(st.body) THEN Return500(st)
    ELSE LET data == JsonLoads(st.body.s) IN
    IF ~data.ok
    THEN [st EXCEPT !.pc = "done", !.source_type = S_json_upload,
                    !.resp = Response(400, S_Invalid_JSON)]
    ELSE IF data.v.t # "dict"
    THEN Return500([st EXCEPT !.source_type = S_json_upload])
    ELSE [st EXCEPT
            !.pc = "construct",
            !.source_type = S_json_upload,
            !.tenant_id = DictGet(data.v, S_tenant_id, PyStr(S_unknown)),
            !.payload_text = DictGet(data.v, S_text, PyStr(<<>>))]

\* lines 27-37: the JSON scenario.  json.loads(None) is a TypeError and
\* data.get on a value that is no dict an AttributeError: neither is a
\* JSONDecodeError, so both reach the handler's except clause
ClassifyJson(st) ==
    IF ~IsStr(st.body) THEN Return500(st)
    ELSE LET data == JsonLoads(st.body.s) IN
    IF ~data.ok
    THEN [st EXCEPT !.pc = "done", !.source_type = S_json_upload,
                    !.resp = Response(400, S_Invalid_JSON)]
    ELSE IF data.v.t # "dict"
    THEN Return500([st EXCEPT !.source_type = S_json_upload])
    ELSE [st EXCEPT
            !.pc = "construct",
            !.source_type = S_json_upload,
            !.tenant_id = DictGet(data.v, S_tenant_id, PyStr(S_unknown)),
            !.payload_text = DictGet(data.v, S_text, PyStr(<<>>)),
            !.log_id = DictGet(data.v, S_log_id, st.log_id)]

\* lines 39-43 with the header read under the name the caller wrote
ClassifyTextCallerCase(st) ==
    [st EXCEPT
        !.pc = "construct",
        !.source_type = S_text_upload,
        !.tenant_id = PyStr(HeadersGet(st.event.headers, S_x_tenant_id,
                                       S_unknown)),
        !.payload_text = st.body]

\* lines 39-43: the plain-text scenario
ClassifyText(st) ==
    [st EXCEPT
        !.pc = "construct",
        !.source_type = S_text_upload,
        !.tenant_id = PyStr(HeadersGet(st.headers, S_x_tenant_id, S_unknown)),
        !.payload_text = st.body]

\* lines 26-46
IngestClassify ==
    /\ ing.pc = "classify"
    /\ ing' = IF Contains(ing.content_type, S_application_json)
              THEN ClassifyJson(ing)
              ELSE IF Contains(ing.content_type, S_text_plain)
              THEN ClassifyText(ing)
              ELSE [ing EXCEPT !.pc = "done",
                               !.resp = Response(400, S_Unsupported)]
    /\ UNCHANGED <<nextUuid, queueVars, workerVars>>

\* lines 48-54 without line 53: the message has no source
IngestConstructPartial ==
    /\ ing.pc = "construct"
    /\ ing' = [ing EXCEPT
                 !.pc = "send",
                 !.message =
                     PyDict(<<Member(S_tenant_id, ing.tenant_id),
                              Member(S_log_id, ing.log_id),
                              Member(S_original_text, ing.payload_text)>>)]
    /\ UNCHANGED <<nextUuid, queueVars, workerVars>>

\* lines 48-54
IngestConstruct ==
    /\ ing.pc = "construct"
    /\ ing' = [ing EXCEPT
                 !.pc = "send",
                 !.message =
                     PyDict(<<Member(S_tenant_id, ing.tenant_id),
                              Member(S_log_id, ing.log_id),
                              Member(S_original_text, ing.payload_text),
                              Member(S_source, PyStr(ing.source_type))>>)]
    /\ UNCHANGED <<nextUuid, queueVars, workerVars>>

\* sqs.send_message(MessageBody=body): the queue takes the message, or the
\* call raises
SendMessage(body, ok) ==
    IF ok
    THEN /\ queue' = queue \cup {[messageId |-> nextMsgId, body |-> body]}
         /\ nextMsgId' = nextMsgId + 1
    ELSE UNCHANGED <<queue, nextMsgId>>

\* lines 56-60
IngestSend ==
    /\ ing.pc = "send"
    /\ \E ok \in BOOLEAN :
         LET body == JsonDumps(ing.message)
             st == [ing EXCEPT
                      !.calls = Append(@, [body |-> body, ok |-> ok])]
         IN  /\ SendMessage(body, ok)
             /\ ing' = IF ok THEN [st EXCEPT !.pc = "respond"]
                             ELSE Return500(st)
    /\ UNCHANGED <<nextUuid, workerVars>>

\* lines 62-65 answering the identifier of line 19
IngestReturnGenerated ==
    /\ ing.pc = "respond"
    /\ ing' = [ing EXCEPT
                 !.pc = "done",
                 !.resp = Response(202,
                     JsonDumps(PyDict(<<Member(S_status, PyStr(S_accepted)),
                                        Member(S_id,
                                            PyStr(Uuid4(nextUuid - 1)))>>)))]
    /\ UNCHANGED <<nextUuid, queueVars, workerVars>>

\* lines 62-65
IngestReturn ==
    /\ ing.pc = "respond"
    /\ ing' = [ing EXCEPT
                 !.pc = "done",
                 !.resp = Response(202,
                     JsonDumps(PyDict(<<Member(S_status, PyStr(S_accepted)),
                                        Member(S_id, ing.log_id)>>)))]
    /\ UNCHANGED <<nextUuid, queueVars, workerVars>>

\* the invocation is over: nothing of it is kept for the next one
IngestEnd ==
    /\ ing.pc = "done"
    /\ ing' = IngIdle
    /\ UNCHANGED <<nextUuid, queueVars, workerVars>>

(***************************************************************************)
(* src/worker.py lambda_handler: the loop over event['Records'], one       *)
(* action for a record's lines 17-44, one for its put_item.                *)
(***************************************************************************)
\* the sleep is counted in units of 0.05 s: 20 to the second, 800 s at most
UnitsPerSecond == 20

CapSeconds == 800

\* lines 27-28 without lines 30-32: no cap
SleepTimeUncapped(n) == n

\* lines 27-32: len(text) * 0.05, capped at 800
SleepTime(n) ==
    IF n > CapSeconds * UnitsPerSecond THEN CapSeconds * UnitsPerSecond ELSE n

\* repr(x), as an f-string formats a value that is no str (text without
\* quotes or backslashes)
RECURSIVE PyRepr(_)
RECURSIVE ReprMembers(_, _, _)
ReprMembers(ms, i, withKeys) ==
    IF i > Len(ms) THEN <<>>
    ELSE (IF i > 1 THEN <<44, 32>> ELSE <<>>)
         \o (IF withKeys THEN <<39>> \o ms[i].k \o <<39, 58, 32>> ELSE <<>>)
         \o PyRepr(ms[i].v)
         \o ReprMembers(ms, i + 1, withKeys)

PyRepr(x) ==
    CASE x.t = "null" -> S_None
      [] x.t = "bool" -> IF x.n = 1 THEN S_True ELSE S_False
      [] x.t = "int" -> IF x.n < 0 THEN <<45>> \o Digits(-x.n) ELSE Digits(x.n)
      [] x.t = "float" -> x.s
      [] x.t = "str" -> <<39>> \o x.s \o <<39>>
      [] x.t = "list" -> <<91>> \o ReprMembers(x.m, 1, FALSE) \o <<93>>
      [] x.t = "dict" -> <<123>> \o ReprMembers(x.m, 1, TRUE) \o <<125>>

\* len(text): defined for a str, a list and a dict
HasLen(x) == x.t \in {"str", "list", "dict"}

PyLen(x) == IF x.t = "str" THEN Len(x.s) ELSE Len(x.m)

\* f"{text[:10]}... [REDACTED]": a str is cut to its first 10 characters, a
\* list to its first 10 elements (a dict cannot be sliced)
ModifiedData(text) ==
    IF IsStr(text) THEN Prefix(text.s, 10) \o S_redacted
    ELSE PyRepr(PyList(Prefix(text.m, 10))) \o S_redacted

NoItem ==
    [tenant_id |-> PyNone, log_id |-> PyNone, source |-> PyNone,
     original_text |-> PyNone, modified_data |-> <<>>, processed_at |-> 0]

\* lines 37-44
Item(body, now) ==
    LET text == DictGet(body, S_original_text, PyStr(<<>>)) IN
    [tenant_id |-> DictGet(body, S_tenant_id, PyNone),
     log_id |-> DictGet(body, S_log_id, PyNone),
     source |-> DictGet(body, S_source, PyNone),
     original_text |-> text,
     modified_data |-> ModifiedData(text),
     processed_at |-> now]

\* lines 17-44 for one message body: whether they raise (json.loads on a
\* body that is no JSON, body.get on a value that is no dict, len or the
\* slice on a text that has none), and the sleep and the item when they do not
Processed(body, now) ==
    LET parsed == JsonLoads(body)
        text == DictGet(parsed.v, S_original_text, PyStr(<<>>))
    IN  IF ~parsed.ok \/ parsed.v.t # "dict" \/ ~HasLen(text) \/ text.t = "dict"
        THEN [ok |-> FALSE, sleep |-> 0, item |-> NoItem]
        ELSE [ok |-> TRUE, sleep |-> SleepTime(PyLen(text)),
              item |-> Item(parsed.v, now)]

\* the table's key of an item
Key(item) == <<item.tenant_id, item.log_id>>

\* a write that puts the item in the place of the whole table
PutItemAlone(table, item) == {item}

\* a table whose key is log_id alone
PutItemByLogId(table, item) ==
    {r \in table : r.log_id # item.log_id} \cup {item}

\* a write that adds the item and replaces nothing
PutItemInsert(table, item) == table \cup {item}

\* table.put_item(Item=item): the item replaces the one under its key
PutItem(table, item) ==
    {r \in table : Key(r) # Key(item)} \cup {item}

\* boto3 refuses a float in an item
Storable(item) ==
    \A v \in {item.tenant_id, item.log_id, item.source, item.original_text} :
        v.t # "float"

\* datetime.utcnow(): time has passed since the last reading
Tick(now) == IF now < MaxClock THEN now + 1 ELSE now

WkIdle ==
    [pc |-> "idle", event |-> <<>>, i |-> 0, item |-> NoItem, sleep |-> 0,
     batch_item_failures |-> <<>>, resp |-> <<>>, outcome |-> <<>>]

\* lines 48-52 without line 52: the failure is logged and not reported
ExceptUnreported(st, how) ==
    [st EXCEPT
        !.pc = "loop",
        !.i = @ + 1,
        !.item = NoItem,
        !.outcome = Append(@, how)]

\* lines 17-46 without the try: the exception leaves lambda_handler
ExceptPropagates(st, how) ==
    [st EXCEPT !.pc = "raised", !.outcome = Append(@, how)]

\* lines 48-52: the except clause of the loop body, then the next record
Except(st, how) ==
    [st EXCEPT
        !.pc = "loop",
        !.i = @ + 1,
        !.item = NoItem,
        !.batch_item_failures = Append(@, st.event[st.i].messageId),
        !.outcome = Append(@, how)]

\* lines 11-15
WorkerInvoke(w, records) ==
    /\ wk[w].pc = "idle"
    /\ wk' = [wk EXCEPT ![w] = [WkIdle EXCEPT !.pc = "loop", !.event = records,
                                              !.i = 1]]
    /\ UNCHANGED <<ingestVars, queueVars, store, clock>>

\* lines 16-44 for the record at i
WorkerProcess(w) ==
    /\ wk[w].pc = "loop"
    /\ wk[w].i <= Len(wk[w].event)
    /\ LET now == Tick(clock)
           p == Processed(wk[w].event[wk[w].i].body, now)
       IN  IF p.ok
           THEN /\ wk' = [wk EXCEPT ![w].pc = "put", ![w].item = p.item,
                                    ![w].sleep = p.sleep]
                /\ clock' = now
           ELSE /\ wk' = [wk EXCEPT ![w] = Except(wk[w], "raised")]
                /\ UNCHANGED clock
    /\ UNCHANGED <<ingestVars, queueVars, store>>

\* line 46 for the record at i: the table takes the item, or put_item raises
WorkerPutItem(w) ==
    /\ wk[w].pc = "put"
    /\ \E ok \in BOOLEAN :
         IF ok /\ Storable(wk[w].item)
         THEN /\ store' = PutItem(store, wk[w].item)
              /\ wk' = [wk EXCEPT ![w].pc = "loop", ![w].i = @ + 1,
                                  ![w].item = NoItem,
                                  ![w].outcome = Append(@, "upserted")]
         ELSE /\ wk' = [wk EXCEPT ![w] = Except(wk[w], "put_item raised")]
              /\ UNCHANGED store
    /\ UNCHANGED <<ingestVars, queueVars, clock>>

\* line 54
WorkerReturn(w) ==
    /\ wk[w].pc = "loop"
    /\ wk[w].i > Len(wk[w].event)
    /\ wk' = [wk EXCEPT ![w].pc = "done",
                        ![w].resp = wk[w].batch_item_failures]
    /\ UNCHANGED <<ingestVars, queueVars, store, clock>>

\* the invocation is over: nothing of it is kept for the next one
WorkerEnd(w) ==
    /\ wk[w].pc = "done"
    /\ wk' = [wk EXCEPT ![w] = WkIdle]
    /\ UNCHANGED <<ingestVars, queueVars, store, clock>>

(***************************************************************************)
(* The specifications.                                                     *)
(***************************************************************************)
Init ==
    /\ ing = IngIdle
    /\ nextUuid = 0
    /\ queue = {}
    /\ nextMsgId = 0
    /\ wk = [w \in Workers |-> WkIdle]
    /\ store = {}
    /\ clock = 0

IngestNext ==
    \/ \E e \in Events : IngestInvoke(e)
    \/ IngestBody
    \/ IngestClassify
    \/ IngestConstruct
    \/ IngestSend
    \/ IngestReturn
    \/ IngestEnd

\* the Ingest Normalizer, one submission after the other
SpecIngest == Init /\ [][IngestNext]_vars

\* two submissions differ at most in the letter case of their header names
SameButCase(e1, e2) ==
    /\ e1.body = e2.body
    /\ e1.isBase64Encoded = e2.isBase64Encoded
    /\ Len(e1.headers) = Len(e2.headers)
    /\ \A i \in 1..Len(e1.headers) :
           /\ Lower(e1.headers[i].k) = Lower(e2.headers[i].k)
           /\ e1.headers[i].v = e2.headers[i].v

\* lines 10-19 for a submission that is the one before, but for the case of
\* its header names
PairInvoke(e) ==
    /\ ing.pc = "idle"
    /\ nextUuid < MaxInvocations
    /\ ing.prev = NoInvocation \/ SameButCase(ing.prev.event, e)
    /\ ing' = [Invoked(e, nextUuid) EXCEPT !.prev = ing.prev]
    /\ nextUuid' = nextUuid + 1
    /\ UNCHANGED <<queueVars, workerVars>>

\* the invocation is over: its event, response and calls are kept
PairEnd ==
    /\ ing.pc = "done"
    /\ ing' = [IngIdle EXCEPT
                 !.prev = [event |-> ing.event, resp |-> ing.resp,
                           calls |-> ing.calls]]
    /\ UNCHANGED <<nextUuid, queueVars, workerVars>>

PairNext ==
    \/ \E e \in Events : PairInvoke(e)
    \/ IngestBody
    \/ IngestClassify
    \/ IngestConstruct
    \/ IngestSend
    \/ IngestReturn
    \/ PairEnd

\* the Ingest Normalizer on submissions that differ in the case of their
\* header names, one after the other
SpecIngestPair == Init /\ [][PairNext]_vars

WorkerNext ==
    \/ \E b \in Batches : WorkerInvoke("w1", Records(b))
    \/ WorkerProcess("w1")
    \/ WorkerPutItem("w1")
    \/ WorkerReturn("w1")
    \/ WorkerEnd("w1")

\* the Batch Processor, one batch after the other
SpecWorker == Init /\ [][WorkerNext]_vars

\* record['body'] of envelopes whose original_text is MaxOver characters
\* or fewer, or within MaxOver characters of the 16000 that sleep 800 s
LongBodies ==
    {JsonDumps(PyDict(<<Member(S_tenant_id, PyStr(V_beta)),
                        Member(S_log_id, PyStr(S_uuid)),
                        Member(S_original_text, PyStr([k \in 1..n |-> 120])),
                        Member(S_source, PyStr(S_text_upload))>>)) :
        n \in (0..MaxOver) \cup
              ((CapSeconds * UnitsPerSecond - MaxOver)
                  ..(CapSeconds * UnitsPerSecond + MaxOver))}

SleepNext ==
    \/ \E b \in LongBodies : WorkerInvoke("w1", Records(<<b>>))
    \/ WorkerProcess("w1")
    \/ WorkerPutItem("w1")
    \/ WorkerReturn("w1")
    \/ WorkerEnd("w1")

\* the Batch Processor on batches of one long envelope
SpecWorkerSleep == Init /\ [][SleepNext]_vars

\* the submissions of the whole system: JSON uploads that name their
\* tenant and their log_id 'abc' (T_json_example, the same with another
\* text, the same of another tenant), one that leaves them untyped, and
\* text uploads with and without a body
SystemEvents ==
    {[headers |-> <<Member(S_content_type, S_application_json)>>,
      body |-> PyStr(b), isBase64Encoded |-> FALSE] :
        b \in {T_json_example, T_json_untyped}
              \cup {JsonDumps(PyDict(<<Member(S_tenant_id, PyStr(tenant)),
                                       Member(S_text, PyStr(T_plain)),
                                       Member(S_log_id, PyStr(V_abc))>>)) :
                        tenant \in {V_acme, V_beta}}}
    \cup
    {[headers |-> <<Member(S_content_type, S_text_plain)>>,
      body |-> b, isBase64Encoded |-> FALSE] : b \in {PyStr(T_plain), PyNone}}

\* event['Records'] the queue can hand over: up to MaxBatch of its
\* messages, each once, in any order; the messages stay on the queue, and
\* may be delivered again, until they are deleted
Deliverable ==
    UNION {{b \in [1..n -> queue] :
               \A i, j \in 1..n : b[i] = b[j] => i = j} : n \in 1..MaxBatch}

\* the queue takes the response of an invocation: it deletes the messages
\* of the batch that are not in batchItemFailures and keeps the others for
\* another delivery
Acknowledge(w) ==
    /\ wk[w].pc = "done"
    /\ queue' = {m \in queue :
                   \/ \A i \in 1..Len(wk[w].event) : wk[w].event[i] # m
                   \/ \E f \in 1..Len(wk[w].resp) :
                          wk[w].resp[f] = m.messageId}
    /\ wk' = [wk EXCEPT ![w] = WkIdle]
    /\ UNCHANGED <<ingestVars, nextMsgId, store, clock>>

\* a submission is handled between the batches: the two functions share
\* the queue alone, so every other interleaving of their steps ends in the
\* state of one of these
SystemNext ==
    \/ /\ \A w \in Workers : wk[w].pc = "idle"
       /\ \E e \in SystemEvents : IngestInvoke(e)
    \/ IngestBody
    \/ IngestClassify
    \/ IngestConstruct
    \/ IngestSend
    \/ IngestReturn
    \/ IngestEnd
    \/ \E w \in Workers :
          \/ /\ ing.pc = "idle"
             /\ \E records \in Deliverable : WorkerInvoke(w, records)
          \/ WorkerProcess(w)
          \/ WorkerPutItem(w)
          \/ WorkerReturn(w)
          \/ Acknowledge(w)

\* the Ingest Normalizer, the queue and two concurrent invocations of the
\* Batch Processor
SpecSystem == Init /\ [][SystemNext]_vars

\* SpecSystem under fairness: every invocation of either function runs to
\* its end (weak fairness of its steps; for the steps whose ENABLED is the
\* position of the invocation, WF_vars(A) is written []<>~ENABLED \/ []<><<A>>),
\* put_item of line 46 returns when it is tried again and again, and the
\* queue delivers every message it holds again and again
SpecSystemFair ==
    /\ SpecSystem
    /\ \/ []<>(ing.pc = "idle")
       \/ []<><<IngestBody \/ IngestClassify \/ IngestConstruct
                   \/ IngestSend \/ IngestReturn \/ IngestEnd>>_vars
    /\ \A w \in Workers :
          /\ \/ []<>(~(wk[w].pc = "loop" /\ wk[w].i <= Len(wk[w].event)))
             \/ []<><<WorkerProcess(w)>>_vars
          /\ WF_vars(WorkerPutItem(w) \/ WorkerReturn(w) \/ Acknowledge(w))
          /\ SF_vars(/\ WorkerPutItem(w)
                     /\ wk'[w].batch_item_failures = wk[w].batch_item_failures)
    /\ \A id \in 0..MaxInvocations :
          SF_vars(\E w \in Workers : \E records \in Deliverable :
                     /\ ing.pc = "idle"
                     /\ \E i \in 1..Len(records) : records[i].messageId = id
                     /\ WorkerInvoke(w, records))

\* record['body'] of the envelopes the Ingest Normalizer enqueues for three
\* JSON uploads: two of tenant 'acme' under log_id 'abc' with different
\* texts, and one of tenant 'beta' under the same log_id
ConcurrentBodies ==
    {M_envelope, E_json_example,
     JsonDumps(PyDict(<<Member(S_tenant_id, PyStr(V_beta)),
                        Member(S_log_id, PyStr(V_abc)),
                        Member(S_original_text, PyStr(T_plain)),
                        Member(S_source, PyStr(S_json_upload))>>))}

\* two invocations at a time: one on a batch, one on a single delivery,
\* of the same or of other envelopes
ConcurrentNext ==
    \/ \E n \in 1..MaxBatch : \E b \in [1..n -> ConcurrentBodies] :
          WorkerInvoke("w1", Records(b))
    \/ \E b \in ConcurrentBodies : WorkerInvoke("w2", Records(<<b>>))
    \/ \E w \in Workers :
          \/ WorkerProcess(w)
          \/ WorkerPutItem(w)
          \/ WorkerReturn(w)
          \/ WorkerEnd(w)

\* concurrent invocations of the Batch Processor on one store
SpecConcurrent == Init /\ [][ConcurrentNext]_vars

(***************************************************************************)
(* The Ingest Normalizer's contract (SpecIngest), stated on the submission *)
(* ing.event, the calls of the enqueue operation ing.calls and the         *)
(* response ing.resp.                                                      *)
(***************************************************************************)
\* the value a submission gives under a header name, in whatever case
Declared(e, name, default) ==
    IF \E i \in 1..Len(e.headers) : Lower(e.headers[i].k) = name
    THEN e.headers[CHOOSE i \in 1..Len(e.headers) :
                       /\ Lower(e.headers[i].k) = name
                       /\ \A j \in (i + 1)..Len(e.headers) :
                              Lower(e.headers[j].k) # name].v
    ELSE default

\* the flagged body of the submission can be decoded to text
Decodable(e) == ~e.isBase64Encoded \/ DecodeBody(e.body).ok

\* the body of the submission, decoded when it is flagged
DecodedBody(e) ==
    IF e.isBase64Encoded THEN PyStr(DecodeBody(e.body).s) ELSE e.body

IsJsonSubmission(e) ==
    Contains(Declared(e, S_content_type, <<>>), S_application_json)

IsTextSubmission(e) ==
    /\ ~IsJsonSubmission(e)
    /\ Contains(Declared(e, S_content_type, <<>>), S_text_plain)

\* the body of a JSON submission is a JSON object
IsJsonObject(x) ==
    IsStr(x) /\ JsonLoads(x.s).ok /\ JsonLoads(x.s).v.t = "dict"

EnvelopeFields == {S_tenant_id, S_log_id, S_original_text, S_source}

\* the envelope this invocation gave to the enqueue operation
Enqueued == JsonLoads(ing.calls[1].body).v

\* x is the identifier this invocation generated: not empty, and none that
\* an earlier invocation generated
IsFreshId(x) ==
    /\ x = PyStr(Uuid4(nextUuid - 1))
    /\ Len(x.s) > 0
    /\ \A n \in 0..(nextUuid - 2) : x.s # Uuid4(n)

\* C4: an invocation calls the enqueue operation at most once; when it has,
\* the four envelope fields were assigned and the body of the call is the
\* message made of them; a 202 response follows exactly one call, which
\* succeeded and left its message on the queue, and a 400 response follows
\* no call.
EnqueuedOnceOnlyWhenAccepted ==
    /\ Len(ing.calls) <= 1
    /\ Len(ing.calls) = 1 =>
           /\ ing.pc \in {"respond", "done"}
           /\ ing.source_type \in {S_json_upload, S_text_upload}
           /\ ing.message.t = "dict"
           /\ Len(ing.message.m) = 4
           /\ {ing.message.m[k].k : k \in 1..Len(ing.message.m)}
                  = EnvelopeFields
           /\ ing.calls[1].body = JsonDumps(ing.message)
           /\ ing.calls[1].ok =>
                  \E m \in queue : m.body = ing.calls[1].body
    /\ ing.resp.statusCode = 202 => Len(ing.calls) = 1 /\ ing.calls[1].ok
    /\ ing.resp.statusCode = 400 => ing.calls = <<>>
    /\ ing.calls = <<>> => ing.resp.statusCode # 202

\* a submission was accepted after its one call of the enqueue operation
AcceptedAfterOneEnqueue ==
    /\ ing.pc = "done"
    /\ ing.resp.statusCode = 202
    /\ Len(ing.calls) = 1
    /\ Cardinality(queue) = 1

\* C5: the body of a 202 response reads as {status: "accepted", id: X},
\* X being the log_id of the envelope this invocation enqueued.
AcceptedEchoesEnqueuedLogId ==
    ing.resp.statusCode = 202 =>
        /\ Len(ing.calls) = 1
        /\ ing.calls[1].ok
        /\ JsonLoads(ing.calls[1].body).ok
        /\ DictHas(Enqueued, S_log_id)
        /\ JsonLoads(ing.resp.body).ok
        /\ JsonLoads(ing.resp.body).v =
               PyDict(<<Member(S_status, PyStr(S_accepted)),
                        Member(S_id, DictGet(Enqueued, S_log_id, PyNone))>>)

\* the example of the spec: the caller's log_id "abc" is answered
AcceptedWithCallersLogId ==
    /\ ing.resp.statusCode = 202
    /\ ing.resp.body = R_accepted_abc
    /\ DictGet(Enqueued, S_log_id, PyNone) = PyStr(V_abc)

\* C6: a submission whose body is text and whose declared content type is
\* neither JSON nor plain text (or is missing), or whose declared type is
\* JSON and whose body is no JSON or no JSON object, is answered 400
\* without a call of the enqueue operation.
UnsupportedOrMalformedIsRejected ==
    (/\ ing.pc = "done"
     /\ Decodable(ing.event)
     /\ IsStr(DecodedBody(ing.event))
     /\ \/ ~IsJsonSubmission(ing.event) /\ ~IsTextSubmission(ing.event)
        \/ IsJsonSubmission(ing.event)
             /\ ~IsJsonObject(DecodedBody(ing.event)))
        => ing.resp.statusCode = 400 /\ ing.calls = <<>>

\* C7: a flagged submission whose body is a string that cannot be decoded
\* to text is answered with a 400-class status, without a call of the
\* enqueue operation.
UndecodableBodyIsClientError ==
    (/\ ing.pc = "done"
     /\ ing.event.isBase64Encoded
     /\ IsStr(ing.event.body)
     /\ ~DecodeBody(ing.event.body).ok)
        => /\ ing.resp.statusCode >= 400
           /\ ing.resp.statusCode <= 499
           /\ ing.calls = <<>>

\* x is a base64 string: characters of the alphabet, in fours, the last
\* four ending in at most two '='
IsBase64Text(x) ==
    /\ IsStr(x)
    /\ Len(x.s) % 4 = 0
    /\ \A i \in 1..Len(x.s) :
           \/ IsB64Char(x.s[i])
           \/ /\ x.s[i] = 61
              /\ i >= Len(x.s) - 1
              /\ \A j \in i..Len(x.s) : x.s[j] = 61

\* C8: the body of a flagged submission is decoded when the content type is
\* classified, and a flagged submission whose body is a string that is no
\* base64 string is not accepted, and no envelope of it is enqueued.
NonBase64BodyFailsTheRequest ==
    /\ (ing.pc = "classify" /\ ing.event.isBase64Encoded) =>
           /\ DecodeBody(ing.event.body).ok
           /\ ing.body = PyStr(DecodeBody(ing.event.body).s)
    /\ (/\ ing.event.isBase64Encoded
        /\ IsStr(ing.event.body)
        /\ ~IsBase64Text(ing.event.body)) =>
           /\ ing.resp.statusCode # 202
           /\ \A c \in 1..Len(ing.calls) : ~ing.calls[c].ok

\* the submission is a JSON submission whose decoded body is a JSON object
IsValidJsonSubmission(e) ==
    /\ IsJsonSubmission(e)
    /\ Decodable(e)
    /\ IsJsonObject(DecodedBody(e))

\* the JSON object a valid JSON submission submits
Submitted(e) == JsonLoads(DecodedBody(e).s).v

\* C9: a valid JSON submission reaches the enqueue operation, and the
\* envelope given to it has the four fields: source json_upload, tenant_id
\* the submitted tenant_id ("unknown" when absent), original_text the
\* submitted text (the empty string when absent), log_id the submitted
\* log_id when the key is present and else the identifier generated for
\* this invocation, which is not empty.
JsonEnvelopeIsTheSubmission ==
    IsValidJsonSubmission(ing.event) =>
        /\ ing.pc = "done" => Len(ing.calls) = 1
        /\ Len(ing.calls) = 1 =>
               /\ Enqueued.t = "dict"
               /\ Len(Enqueued.m) = 4
               /\ DictGet(Enqueued, S_source, PyNone) = PyStr(S_json_upload)
               /\ DictGet(Enqueued, S_tenant_id, PyNone) =
                      IF DictHas(Submitted(ing.event), S_tenant_id)
                      THEN DictGet(Submitted(ing.event), S_tenant_id, PyNone)
                      ELSE PyStr(S_unknown)
               /\ DictGet(Enqueued, S_original_text, PyNone) =
                      IF DictHas(Submitted(ing.event), S_text)
                      THEN DictGet(Submitted(ing.event), S_text, PyNone)
                      ELSE PyStr(<<>>)
               /\ IF DictHas(Submitted(ing.event), S_log_id)
                  THEN DictGet(Enqueued, S_log_id, PyNone) =
                           DictGet(Submitted(ing.event), S_log_id, PyNone)
                  ELSE IsFreshId(DictGet(Enqueued, S_log_id, PyNone))

\* the example of the spec: its envelope is on the queue
JsonExampleEnqueued ==
    /\ IsValidJsonSubmission(ing.event)
    /\ Len(ing.calls) = 1
    /\ ing.calls[1].ok
    /\ ing.calls[1].body = E_json_example
    /\ \E m \in queue : m.body = E_json_example

\* C10: a plain-text submission whose body decodes reaches the enqueue
\* operation, and the envelope given to it has the four fields: source
\* text_upload, tenant_id the value of the x-tenant-id header in whatever
\* case ("unknown" without the header), original_text the decoded body, and
\* log_id the identifier generated for this invocation.
TextEnvelopeIsTheSubmission ==
    (IsTextSubmission(ing.event) /\ Decodable(ing.event)) =>
        /\ ing.pc = "done" => Len(ing.calls) = 1
        /\ Len(ing.calls) = 1 =>
               /\ Enqueued.t = "dict"
               /\ Len(Enqueued.m) = 4
               /\ DictGet(Enqueued, S_source, PyNone) = PyStr(S_text_upload)
               /\ DictGet(Enqueued, S_tenant_id, PyNone) =
                      PyStr(Declared(ing.event, S_x_tenant_id, S_unknown))
               /\ DictGet(Enqueued, S_original_text, PyNone) =
                      DecodedBody(ing.event)
               /\ IsFreshId(DictGet(Enqueued, S_log_id, PyNone))

\* the example of the spec, its body sent in base64 and its tenant header
\* in mixed case: the envelope on the queue is beta's "hi there"
TextExampleEnqueued ==
    /\ IsTextSubmission(ing.event)
    /\ ing.event.isBase64Encoded
    /\ Len(ing.event.headers) = 2
    /\ ing.event.headers[2].k = N_X_Tenant_Id
    /\ Len(ing.calls) = 1
    /\ ing.calls[1].ok
    /\ DictGet(Enqueued, S_tenant_id, PyNone) = PyStr(V_beta)
    /\ DictGet(Enqueued, S_original_text, PyNone) = PyStr(T_plain)
    /\ \E m \in queue : m.body = ing.calls[1].body

\* the enqueue operation did not fail in an invocation
NoFailedEnqueue(calls) == \A c \in 1..Len(calls) : calls[c].ok

\* the envelope an accepted invocation enqueued
EnvelopeOf(calls) == JsonLoads(calls[1].body).v

\* C11: of two submissions that differ only in the letter case of their
\* header names, and in neither of which the enqueue operation failed, the
\* second has the status code of the first, and when they are accepted
\* their envelopes have the same tenant_id, original_text and source.
HeaderCaseDoesNotMatter ==
    (/\ ing.pc = "done"
     /\ ing.prev # NoInvocation
     /\ SameButCase(ing.prev.event, ing.event)
     /\ NoFailedEnqueue(ing.prev.calls)
     /\ NoFailedEnqueue(ing.calls))
        => /\ ing.resp.statusCode = ing.prev.resp.statusCode
           /\ ing.resp.statusCode = 202 =>
                  \A f \in {S_tenant_id, S_original_text, S_source} :
                      DictGet(EnvelopeOf(ing.calls), f, PyNone) =
                          DictGet(EnvelopeOf(ing.prev.calls), f, PyNone)

\* a plain-text submission with Content-Type and X-Tenant-Id was accepted
\* after the same with content-type and x-tenant-id, both for tenant beta
BothCasesAccepted ==
    /\ ing.pc = "done"
    /\ ing.resp.statusCode = 202
    /\ ing.prev.resp.statusCode = 202
    /\ Len(ing.event.headers) = 2
    /\ ing.event.headers[1].k = N_Content_Type
    /\ ing.event.headers[2].k = N_X_Tenant_Id
    /\ ing.prev.event.headers[1].k = S_content_type
    /\ ing.prev.event.headers[2].k = S_x_tenant_id
    /\ DictGet(EnvelopeOf(ing.calls), S_tenant_id, PyNone) = PyStr(V_beta)

\* x reads as an envelope of the data model: a JSON object of the four
\* fields, tenant_id, log_id and original_text strings, source one of the
\* two paths
IsWellFormedEnvelope(x) ==
    /\ JsonLoads(x).ok
    /\ JsonLoads(x).v.t = "dict"
    /\ \A f \in EnvelopeFields : DictHas(JsonLoads(x).v, f)
    /\ \A f \in {S_tenant_id, S_log_id, S_original_text} :
           IsStr(DictGet(JsonLoads(x).v, f, PyNone))
    /\ DictGet(JsonLoads(x).v, S_source, PyNone)
           \in {PyStr(S_json_upload), PyStr(S_text_upload)}

\* C12: in every state, every message on the queue is a well-formed
\* envelope.
QueueHoldsWellFormedEnvelopes ==
    \A m \in queue : IsWellFormedEnvelope(m.body)

\* C14: no exception leaves an invocation (pc is never "raised"); the status
\* of its response is 202, 400 or 500; an invocation whose body cannot be
\* decoded or whose enqueue call failed answers 500; and the body of every
\* 500 response is the same fixed text.
AnswersAreAcceptedRejectedOrFixedError ==
    /\ ing.pc \in {"idle", "body", "classify", "construct", "send",
                   "respond", "done"}
    /\ ing.pc = "done" =>
           /\ ing.resp.statusCode \in {202, 400, 500}
           /\ ing.resp.statusCode = 500 => ing.resp.body = S_Internal
           /\ ~Decodable(ing.event) => ing.resp.statusCode = 500
           /\ ~NoFailedEnqueue(ing.calls) => ing.resp.statusCode = 500
    /\ ing.pc # "done" => ing.resp = NoResponse

\* the enqueue call of an invocation failed and it answered the fixed 500
FailedEnqueueAnswered500 ==
    /\ ing.pc = "done"
    /\ Len(ing.calls) = 1
    /\ ~ing.calls[1].ok
    /\ ing.resp = Response(500, S_Internal)
    /\ queue = {}

(***************************************************************************)
(* The path of an envelope from the queue to the store (SpecSystemFair).   *)
(***************************************************************************)
\* the key under which the envelope of a message body is to be stored
EnvelopeKey(body) ==
    <<DictGet(JsonLoads(body).v, S_tenant_id, PyNone),
      DictGet(JsonLoads(body).v, S_log_id, PyNone)>>

\* the keys of the envelopes of SystemEvents
SystemKeys ==
    {<<PyStr(V_acme), PyStr(V_abc)>>, <<PyStr(V_beta), PyStr(V_abc)>>,
     <<PyNone, PyInt(7)>>}
    \cup {<<PyStr(S_unknown), PyStr(Uuid4(n))>> : n \in 0..MaxInvocations}

\* C15: under the fairness of SpecSystemFair, whenever the queue holds an
\* envelope (enqueued by an accepted submission), the store eventually holds
\* a record under the envelope's (tenant_id, log_id).
AcceptedIsEventuallyStored ==
    \A k \in SystemKeys :
        (\E m \in queue : EnvelopeKey(m.body) = k)
            ~> (\E r \in store : Key(r) = k)

\* the same of the envelopes whose four fields are strings
WellFormedIsEventuallyStored ==
    \A k \in SystemKeys :
        (\E m \in queue : /\ EnvelopeKey(m.body) = k
                          /\ IsWellFormedEnvelope(m.body))
            ~> (\E r \in store : Key(r) = k)

(***************************************************************************)
(* The Batch Processor's contract (SpecWorker).                            *)
(***************************************************************************)
\* the returned failure set names the k-th message of the batch
InFailureSet(st, k) ==
    \E f \in 1..Len(st.resp) : st.resp[f] = st.event[k].messageId

\* C1: when the Batch Processor returns, the failure set holds delivery
\* identifiers of the batch only, and the identifier of a message is in it if
\* and only if the message's processing failed: a body that does not
\* deserialize and a body whose processing raises are in it, a message whose
\* upsert succeeded is not, and a message that is not in it was upserted in
\* this invocation and the store holds a record under its key.
FailureSetIsTheFailedMessages ==
    \A w \in Workers :
        wk[w].pc = "done" =>
            /\ Len(wk[w].outcome) = Len(wk[w].event)
            /\ \A f \in 1..Len(wk[w].resp) :
                   \E k \in 1..Len(wk[w].event) :
                       wk[w].resp[f] = wk[w].event[k].messageId
            /\ \A k \in 1..Len(wk[w].event) :
                   LET body == wk[w].event[k].body IN
                   /\ InFailureSet(wk[w], k) <=> wk[w].outcome[k] # "upserted"
                   /\ ~JsonLoads(body).ok => InFailureSet(wk[w], k)
                   /\ ~Processed(body, 0).ok => InFailureSet(wk[w], k)
                   /\ ~InFailureSet(wk[w], k) =>
                          \E r \in store : Key(r) = Key(Processed(body, 0).item)

\* a batch of a body that does not deserialize and a valid envelope has
\* returned: the first is the failure set, the second is in the store
OneFailedOneUpserted ==
    /\ wk["w1"].pc = "done"
    /\ Len(wk["w1"].event) = 2
    /\ ~JsonLoads(wk["w1"].event[1].body).ok
    /\ wk["w1"].resp = <<wk["w1"].event[1].messageId>>
    /\ wk["w1"].outcome = <<"raised", "upserted">>
    /\ \E r \in store : r.log_id = DictGet(JsonLoads(wk["w1"].event[2].body).v,
                                            S_log_id, PyNone)

\* C2: no exception of a message's processing leaves the invocation (pc is
\* never "raised"); each one makes one failure entry, for its message; the
\* loop goes on to the next message, and the invocation returns only when
\* every message of the batch has been processed.
ExceptionsStayWithTheirMessage ==
    \A w \in Workers :
        /\ wk[w].pc # "raised"
        /\ wk[w].pc \in {"loop", "put"} => Len(wk[w].outcome) = wk[w].i - 1
        /\ wk[w].pc = "done" => Len(wk[w].outcome) = Len(wk[w].event)
        /\ Len(wk[w].batch_item_failures) =
               Cardinality({k \in 1..Len(wk[w].outcome) :
                               wk[w].outcome[k] # "upserted"})
        /\ \A f \in 1..Len(wk[w].batch_item_failures) :
               \E k \in 1..Len(wk[w].outcome) :
                   /\ wk[w].outcome[k] # "upserted"
                   /\ wk[w].batch_item_failures[f] = wk[w].event[k].messageId

\* the store write of the first message raised, the processing of the second
\* raised, and the invocation returned both
TwoExceptionsOneReturn ==
    /\ wk["w1"].pc = "done"
    /\ wk["w1"].outcome = <<"put_item raised", "raised">>
    /\ wk["w1"].resp = <<1, 2>>

\* C13: the duration the Batch Processor blocks for a message, counted in
\* units of 0.05 s, is the smaller of the length of original_text and the
\* 16000 units of the ceiling: it is the length up to the ceiling, and never
\* more than the ceiling.
SleepIsClampedLength ==
    \A w \in Workers :
        wk[w].pc = "put" =>
            /\ wk[w].sleep <= CapSeconds * UnitsPerSecond
            /\ PyLen(wk[w].item.original_text) <= CapSeconds * UnitsPerSecond
                   => wk[w].sleep = PyLen(wk[w].item.original_text)
            /\ PyLen(wk[w].item.original_text) > CapSeconds * UnitsPerSecond
                   => wk[w].sleep = CapSeconds * UnitsPerSecond

\* a text one character longer than the ceiling pays for has been slept for
SleptAtTheCeiling ==
    /\ wk["w1"].pc = "put"
    /\ PyLen(wk["w1"].item.original_text) = CapSeconds * UnitsPerSecond + 1
    /\ wk["w1"].sleep = CapSeconds * UnitsPerSecond

\* the envelope fields of two records, or of a record and an item, agree
SameEnvelope(r, item) ==
    /\ r.tenant_id = item.tenant_id
    /\ r.log_id = item.log_id
    /\ r.original_text = item.original_text
    /\ r.source = item.source

\* worker w's step is a successful upsert of wk[w].item
Upserts(w) ==
    /\ wk[w].pc = "put"
    /\ Len(wk'[w].outcome) = Len(wk[w].outcome) + 1
    /\ wk'[w].outcome[Len(wk'[w].outcome)] = "upserted"

OneRecordPerKey == \A r1, r2 \in store : Key(r1) = Key(r2) => r1 = r2

\* an upsert leaves one record under the item's key, and a record of the
\* same envelope that was there is there again, but for its processed_at
UpsertRepeats ==
    \A w \in Workers :
        Upserts(w) =>
            /\ Cardinality({r \in store' : Key(r) = Key(wk[w].item)}) = 1
            /\ \A r \in store :
                   SameEnvelope(r, wk[w].item) =>
                       /\ [r EXCEPT !.processed_at = wk[w].item.processed_at]
                              \in store'
                       /\ Cardinality(store') = Cardinality(store)

\* C3: the store never holds two records of one (tenant_id, log_id), and
\* processing an envelope whose record is in the store leaves that one
\* record, with the same content apart from processed_at.
UpsertIsIdempotent == []OneRecordPerKey /\ [][UpsertRepeats]_vars

\* one envelope was delivered twice in a batch and upserted twice: the store
\* holds one record, of the second time
SameEnvelopeUpsertedTwice ==
    /\ Len(wk["w1"].event) = 2
    /\ wk["w1"].event[1].body = wk["w1"].event[2].body
    /\ wk["w1"].outcome = <<"upserted", "upserted">>
    /\ Cardinality(store) = 1
    /\ \E r \in store : r.processed_at = 2

\* the step of a message's processing changes, of the store, at most the
\* record under the message's key, and nothing when it is not an upsert
OwnRecordOnly ==
    \A w \in Workers :
        /\ Upserts(w) =>
               \A r \in store \cup store' :
                   Key(r) # EnvelopeKey(wk[w].event[wk[w].i].body) =>
                       r \in store /\ r \in store'
        /\ Len(wk'[w].batch_item_failures) > Len(wk[w].batch_item_failures)
               => store' = store
        /\ (\A v \in Workers : ~Upserts(v)) => store' = store

\* C17: the processing of a message changes no record but the one under the
\* message's (tenant_id, log_id), and a message that ends in the failure set
\* changes none.
ProcessingTouchesOwnKeyOnly == [][OwnRecordOnly]_vars

\* beside the record of another key, the first message of a batch was
\* upserted and the second failed
UpsertedBesideAnotherKeyThenFailed ==
    /\ Cardinality(store) = 2
    /\ wk["w1"].outcome = <<"upserted", "raised">>
    /\ wk["w1"].batch_item_failures = <<wk["w1"].event[2].messageId>>
    /\ \E r \in store : Key(r) # EnvelopeKey(wk["w1"].event[1].body)

\* the envelope of the message an invocation processed last
LastEnvelope(w) == JsonLoads(wk[w].event[Len(wk[w].outcome)].body).v

\* the characters of a text: of a value that is no string, those of its
\* printed form
Characters(x) == IF IsStr(x) THEN x.s ELSE PyRepr(x)

\* the record under the envelope's key has the envelope's tenant_id, log_id,
\* source and original_text, and its modified_data is the first 10
\* characters of original_text and the redaction marker
IsRedactedRecordOf(envelope) ==
    \E r \in store :
        /\ r.tenant_id = DictGet(envelope, S_tenant_id, PyNone)
        /\ r.log_id = DictGet(envelope, S_log_id, PyNone)
        /\ r.source = DictGet(envelope, S_source, PyNone)
        /\ r.original_text = DictGet(envelope, S_original_text, PyNone)
        /\ r.modified_data =
               Prefix(Characters(r.original_text), 10) \o S_redacted

\* an invocation has just upserted an envelope that has its four fields
JustUpserted(w) ==
    /\ wk[w].pc \in {"loop", "done"}
    /\ Len(wk[w].outcome) > 0
    /\ wk[w].outcome[Len(wk[w].outcome)] = "upserted"
    /\ \A f \in EnvelopeFields : DictHas(LastEnvelope(w), f)

\* C19: the record of a successfully processed envelope has the envelope's
\* tenant_id, log_id, source and original_text, and its modified_data is the
\* first 10 characters of original_text (the whole text when shorter)
\* followed by the redaction marker.
StoredRecordIsTheRedactedEnvelope ==
    \A w \in Workers : JustUpserted(w) => IsRedactedRecordOf(LastEnvelope(w))

\* the same of the envelopes whose original_text is a string
StoredRecordOfAStringIsRedacted ==
    \A w \in Workers :
        /\ JustUpserted(w)
        /\ IsStr(DictGet(LastEnvelope(w), S_original_text, PyNone))
        => IsRedactedRecordOf(LastEnvelope(w))

(***************************************************************************)
(* Concurrent invocations of the Batch Processor (SpecConcurrent).         *)
(***************************************************************************)
\* the record of an envelope, its processed_at set to 0
ContentOf == [b \in ConcurrentBodies |-> Item(JsonLoads(b).v, 0)]

\* another envelope has the key of the envelope b
SharesKey(b) ==
    \E other \in ConcurrentBodies :
        other # b /\ Key(ContentOf[other]) = Key(ContentOf[b])

\* the envelopes an invocation has upserted so far
UpsertedBy(w) ==
    {wk[w].event[j].body : j \in {i \in 1..Len(wk[w].outcome) :
                                     wk[w].outcome[i] = "upserted"}}

\* C16: whatever the interleaving of two invocations, the store holds one
\* record per key, every record is the record of an envelope, every envelope
\* an invocation has upserted has its record, and the record of an envelope
\* that shares its key with no other envelope is, apart from processed_at,
\* the record of that envelope.
ConcurrentUpsertsLeaveOneRecord ==
    /\ \A r1, r2 \in store : Key(r1) = Key(r2) => r1 = r2
    /\ \A r \in store : \E b \in ConcurrentBodies :
           [r EXCEPT !.processed_at = 0] = ContentOf[b]
    /\ \A w \in Workers : \A b \in UpsertedBy(w) :
           /\ \E r \in store : Key(r) = Key(ContentOf[b])
           /\ ~SharesKey(b) =>
                  \A r \in store :
                      Key(r) = Key(ContentOf[b]) =>
                          [r EXCEPT !.processed_at = 0] = ContentOf[b]

\* two invocations under way have both upserted the same envelope, at
\* different times, and the store holds one record
DuplicatesUpsertedConcurrently ==
    /\ \A w \in Workers : wk[w].pc \in {"loop", "put"}
    /\ UpsertedBy("w1") \cap UpsertedBy("w2") # {}
    /\ Len(wk["w1"].event) = 2
    /\ wk["w1"].pc = "put"
    /\ clock = 2
    /\ Cardinality(store) = 1

\* an upsert puts its item in the place of the record of the same tenant_id
\* and log_id, whatever its text, and keeps the records of the same log_id
\* and another tenant_id
LastUpsertWins ==
    \A w \in Workers :
        Upserts(w) =>
            /\ {r \in store' : Key(r) = Key(wk[w].item)} = {wk[w].item}
            /\ \A r \in store :
                   /\ r.log_id = wk[w].item.log_id
                   /\ r.tenant_id # wk[w].item.tenant_id
                   => r \in store'

\* C18: envelopes of accepted submissions with the same tenant_id and the
\* same log_id and different texts leave one record, of the one processed
\* last; envelopes with the same log_id and different tenant_id leave one
\* record each.
SameKeyOverwritesOtherTenantStays == [][LastUpsertWins]_vars

\* the batch of 'hello' and 'hello world!' under ('acme', 'abc') is
\* upserted, and so is the envelope of 'beta' under 'abc': two records, the
\* one of 'acme' holding 'hello world!'
OverwrittenBesideOtherTenant ==
    /\ wk["w1"].event = Records(<<E_json_example, M_envelope>>)
    /\ wk["w1"].outcome = <<"upserted", "upserted">>
    /\ wk["w2"].outcome = <<"upserted">>
    /\ Cardinality(store) = 2
    /\ \E r \in store :
           /\ r.tenant_id = PyStr(V_acme)
           /\ [r EXCEPT !.processed_at = 0] = ContentOf[M_envelope]
    /\ \E r \in store : r.tenant_id = PyStr(V_beta) /\ r.log_id = PyStr(V_abc)

=============================================================================
